---- MODULE Spec2Model ----
(***************************************************************************)
(* Model of the fetch-articles route (src/app/api/fetch-articles/route.ts): *)
(* the POST handler loops over the keyword catalog, calls fetchArticles    *)
(* for each keyword, pauses, then ensures the articles table and upserts   *)
(* the accumulated batch.  Every await of the handler is one action.       *)
(***************************************************************************)
EXTENDS Integers, Sequences, FiniteSets, TLC

\* ------------------------------------------------------------------ bounds
\* Largest number of results one response carries in the model.
MaxResults == 2
\* Largest number of articles one run accumulates in the model.
MaxArticles == 2
\* Largest response latency of the External News Source, in ms.
MaxLatency == 500

\* --------------------------------------------------------------- constants
\* delay(1000) in the POST loop.
DelayMs == 1000

\* The POST invocations that may be in flight at once.
Runs == {1, 2}

\* ----------------------------------------------------------------- catalog
\* keywords, by language, in source order (phrases named by their position).
keywords ==
  [arabic  |-> <<"ar1", "ar2", "ar3", "ar4", "ar5", "ar6">>,
   french  |-> <<"fr1", "fr2", "fr3", "fr4", "fr5", "fr6", "fr7">>,
   spanish |-> <<"es1", "es2", "es3", "es4", "es5", "es6", "es7">>]

\* Object.entries(keywords) enumerates the languages in insertion order.
Languages == <<"arabic", "french", "spanish">>

\* The hl parameter: language === 'arabic' ? 'ar' : language === 'french' ? 'fr' : 'es'.
Hl(language) ==
  IF language = "arabic" THEN "ar" ELSE IF language = "french" THEN "fr" ELSE "es"

\* The search request fetchArticles(keyword, lang) sends.
SearchRequest(language, keyword) ==
  [q |-> keyword, hl |-> Hl(language), gl |-> "ma", tbm |-> "nws",
   tbs |-> "qdr:d", num |-> 100]

\* ------------------------------------------------------------ raw results
\* The source field of a raw result: a plain string, an object (with or
\* without a title) or absent.  text is the string, or the object's title.
SrcString(s) == [shape |-> "string", hasTitle |-> FALSE, text |-> s]
SrcObject(t) == [shape |-> "object", hasTitle |-> TRUE,  text |-> t]
SrcNoTitle   == [shape |-> "object", hasTitle |-> FALSE, text |-> ""]
SrcAbsent    == [shape |-> "absent", hasTitle |-> FALSE, text |-> ""]

Raw(l, t, d, s) == [link |-> l, title |-> t, snippet |-> t, date |-> d, source |-> s]

\* The raw results the External News Source may return.
RawResults ==
  { Raw("u1", "t1", "2024-05-01", SrcString("Reuters")),
    Raw("u1", "t2", "",           SrcObject("AFP")),
    Raw("u2", "t1", "2024-05-01", SrcAbsent),
    Raw("u2", "t2", "not-a-date", SrcObject("")),
    Raw("u1", "t1", "2024-05-01", SrcNoTitle),
    Raw("u2", "t1", "",           SrcString("")) }

\* Sequences over S of length at most n.
SeqUpTo(S, n) == UNION { [1..k -> S] : k \in 0..n }

\* What one search may come to: a non-success HTTP response, a success body
\* without an array news_results, an exception thrown while fetching or
\* parsing, or a success body with results.  body is the news_results array
\* the response body carries (an error body may carry one too).
Outcomes ==
  [kind : {"http_error"}, body : SeqUpTo(RawResults, 1)]
    \cup [kind : {"no_results", "throw"}, body : {<<>>}]
    \cup [kind : {"ok"}, body : SeqUpTo(RawResults, MaxResults)]

\* ------------------------------------------------------------ fetchArticles
\* typeof source === 'string' ? source : source?.title || 'Unknown'
NormalizeSourceMut(src) ==
  IF src.shape = "string" THEN src.text
  ELSE IF src.shape = "object" /\ src.hasTitle THEN "Unknown" ELSE "Unknown"

NormalizeSource(src) ==
  IF src.shape = "string" THEN src.text
  ELSE IF src.shape = "object" /\ src.hasTitle /\ src.text # "" THEN src.text
  ELSE "Unknown"

\* The Article built from one raw result (created_at is the ingestion time).
ToArticle(raw) ==
  [title |-> raw.title, link |-> raw.link, snippet |-> raw.snippet,
   date |-> raw.date, source |-> NormalizeSource(raw.source),
   created_at |-> "now"]

\* The articles fetchArticles returns for an outcome.
ContributionMut(outcome) ==
  IF outcome.kind \in {"ok", "http_error"}
  THEN [i \in 1..Len(outcome.body) |-> ToArticle(outcome.body[i])]
  ELSE <<>>

Contribution(outcome) ==
  IF outcome.kind = "ok"
  THEN [i \in 1..Len(outcome.body) |-> ToArticle(outcome.body[i])]
  ELSE <<>>

\* -------------------------------------------------------------- projection
\* new Date(date): the timestamp a date string parses to, or "Invalid Date".
ParseDate(date) ==
  IF date = "2024-05-01" THEN "2024-05-01T00:00:00.000Z" ELSE "Invalid Date"

\* published_at: article.date ? new Date(article.date).toISOString()
\*                            : new Date().toISOString().
\* toISOString() of an Invalid Date throws a RangeError.
PublishedAt(date) ==
  IF date = "" THEN [threw |-> FALSE, value |-> "now"]
  ELSE IF ParseDate(date) = "Invalid Date" THEN [threw |-> TRUE, value |-> ""]
  ELSE [threw |-> FALSE, value |-> ParseDate(date)]

\* Whether articles.map(...) in insertArticles throws.
TransformThrows(articles) ==
  \E i \in 1..Len(articles) : PublishedAt(articles[i].date).threw

\* transformedArticles: the rows sent to the store.
Transform(articles) ==
  [i \in 1..Len(articles) |->
     [url |-> articles[i].link, title |-> articles[i].title,
      description |-> articles[i].snippet,
      published_at |-> PublishedAt(articles[i].date).value,
      created_at |-> "now"]]

\* ------------------------------------------------------------------- store
\* The urls of the rows of a table.
Urls(rows) == { rows[i].url : i \in 1..Len(rows) }

\* upsert(rows, { onConflict: 'url', ignoreDuplicates: true }) on a table
\* whose url column is UNIQUE: a row is inserted unless a row with its url
\* is already there, be it an older row or an earlier row of the batch.
RECURSIVE UpsertRowsNoConflict(_, _)
UpsertRowsNoConflict(rows, b) ==
  IF b = <<>> THEN rows
  ELSE UpsertRowsNoConflict(Append(rows, Head(b)), Tail(b))

RECURSIVE UpsertRowsMerge(_, _)
UpsertRowsMerge(rows, b) ==
  IF b = <<>> THEN rows
  ELSE UpsertRowsMerge(
         IF Head(b).url \in Urls(rows)
         THEN [i \in 1..Len(rows) |->
                 IF rows[i].url = Head(b).url THEN Head(b) ELSE rows[i]]
         ELSE Append(rows, Head(b)),
         Tail(b))

RECURSIVE UpsertRows(_, _)
UpsertRows(rows, b) ==
  IF b = <<>> THEN rows
  ELSE UpsertRows(
         IF Head(b).url \in Urls(rows) THEN rows ELSE Append(rows, Head(b)),
         Tail(b))

\* ----------------------------------------------------------------- replies
NoReply == [status |-> 0, body |-> "none", count |-> 0]

\* { success: false, message: 'No articles found' }, status 404.
NotFoundReply == [status |-> 404, body |-> "no_articles", count |-> 0]

\* { success: true, message: `Successfully processed ${allArticles.length} articles` }.
SuccessReplyInserted(articles) ==
  [status |-> 200, body |-> "success",
   count |-> Cardinality({ articles[i].link : i \in 1..Len(articles) })]

SuccessReply(articles) ==
  [status |-> 200, body |-> "success", count |-> Len(articles)]

\* The catch of POST: { error, details }, status 500.
ErrorReply == [status |-> 500, body |-> "error", count |-> 0]

\* if (allArticles.length === 0) in POST.
NoArticlesFoundNever(articles) == FALSE

NoArticlesFound(articles) == Len(articles) = 0

\* ------------------------------------------------------------------- state
VARIABLES
  pc,          \* pc[r]: where run r stands: idle, fetch, delay, probe, create, upsert, done
  li,          \* li[r]: index of the language of the outer loop
  ki,          \* ki[r]: index of the keyword of the inner loop
  allArticles, \* allArticles[r]: the accumulated articles of run r
  raws,        \* raws[r]: the raw results the accumulated articles were built from
  batch,       \* batch[r]: transformedArticles, once computed
  reply,       \* reply[r]: the HTTP reply of run r
  elapsed,     \* elapsed[r]: ms since run r issued its latest search request
  requests,    \* requests[r]: the search requests run r has issued, in order
  ops,         \* ops[r]: data-store operations run r has attempted
  replies,     \* replies[r]: replies run r has sent
  raised,      \* raised[r]: where an error was raised in run r ("none" if nowhere)
  succSum,     \* succSum[r]: sum of the result counts of the successful searches
  failed,      \* failed[r]: some search of run r failed
  recovered,   \* recovered[r]: a search of run r returned results after a failed one
  inserted,    \* inserted[r]: rows the upsert of run r added to the table
  feedOf,      \* feedOf[r]: the feed the news source serves run r from (0: any outcome)
  tableExists, \* the articles table exists
  table        \* the rows of the articles table, in insertion order

vars == <<pc, li, ki, allArticles, raws, batch, reply, elapsed, requests, ops,
          replies, raised, succSum, failed, recovered, inserted, feedOf, tableExists,
          table>>

\* The tables a first call of POST may find: no table, an empty one, or one
\* that holds a row of an earlier ingest.
InitialTables ==
  { <<>>,
    <<[url |-> "u1", title |-> "t1", description |-> "t1",
       published_at |-> "2024-05-01T00:00:00.000Z", created_at |-> "earlier"]>> }

NoOps == [probe |-> 0, create |-> 0, upsert |-> 0]

Init ==
  /\ pc = [r \in Runs |-> "idle"]
  /\ li = [r \in Runs |-> 1]
  /\ ki = [r \in Runs |-> 1]
  /\ allArticles = [r \in Runs |-> <<>>]
  /\ raws = [r \in Runs |-> <<>>]
  /\ batch = [r \in Runs |-> <<>>]
  /\ reply = [r \in Runs |-> NoReply]
  /\ elapsed = [r \in Runs |-> 0]
  /\ requests = [r \in Runs |-> <<>>]
  /\ ops = [r \in Runs |-> NoOps]
  /\ replies = [r \in Runs |-> 0]
  /\ raised = [r \in Runs |-> "none"]
  /\ succSum = [r \in Runs |-> 0]
  /\ failed = [r \in Runs |-> FALSE]
  /\ recovered = [r \in Runs |-> FALSE]
  /\ inserted = [r \in Runs |-> 0]
  /\ feedOf = [r \in Runs |-> 0]
  /\ \/ tableExists = FALSE /\ table = <<>>
     \/ tableExists = TRUE /\ table \in InitialTables

\* ------------------------------------------------------------------ feeds
\* A feed: the outcome of the search of each keyword while the responses of
\* the External News Source stay the same.
Ok(b) == [kind |-> "ok", body |-> b]
Quiet == [kind |-> "no_results", body |-> <<>>]

Feeds ==
  << [k \in {"ar1", "fr7", "es1"} |->
        IF k = "ar1" THEN Ok(<<Raw("u1", "t1", "2024-05-01", SrcString("Reuters"))>>)
        ELSE IF k = "fr7"
        THEN Ok(<<Raw("u1", "t1", "2024-05-01", SrcString("Reuters")),
                  Raw("u2", "t1", "2024-05-01", SrcAbsent)>>)
        ELSE [kind |-> "http_error", body |-> <<>>]],
     [k \in {"ar6", "es7"} |->
        IF k = "ar6" THEN Ok(<<Raw("u1", "t2", "", SrcObject("AFP"))>>)
        ELSE [kind |-> "throw", body |-> <<>>]],
     [k \in {"fr1"} |-> Ok(<<Raw("u2", "t1", "", SrcString(""))>>)] >>

\* The outcome feed f gives the search of keyword k.
FeedOutcome(f, k) == IF k \in DOMAIN Feeds[f] THEN Feeds[f][k] ELSE Quiet

\* ----------------------------------------------------------------- actions
Lang(r) == Languages[li[r]]
Keyword(r) == keywords[Lang(r)][ki[r]]

\* The loops of POST have a next keyword after the current one.
HasNext(l, k) == k < Len(keywords[Languages[l]]) \/ l < Len(Languages)

\* A call of POST begins: allArticles = [] and the first search is due.
Start(r, f) ==
  /\ pc[r] \in {"idle", "done"}
  /\ pc' = [pc EXCEPT ![r] = "fetch"]
  /\ li' = [li EXCEPT ![r] = 1]
  /\ ki' = [ki EXCEPT ![r] = 1]
  /\ allArticles' = [allArticles EXCEPT ![r] = <<>>]
  /\ raws' = [raws EXCEPT ![r] = <<>>]
  /\ batch' = [batch EXCEPT ![r] = <<>>]
  /\ reply' = [reply EXCEPT ![r] = NoReply]
  /\ elapsed' = [elapsed EXCEPT ![r] = 0]
  /\ requests' = [requests EXCEPT ![r] = <<>>]
  /\ ops' = [ops EXCEPT ![r] = NoOps]
  /\ replies' = [replies EXCEPT ![r] = 0]
  /\ raised' = [raised EXCEPT ![r] = "none"]
  /\ succSum' = [succSum EXCEPT ![r] = 0]
  /\ failed' = [failed EXCEPT ![r] = FALSE]
  /\ recovered' = [recovered EXCEPT ![r] = FALSE]
  /\ inserted' = [inserted EXCEPT ![r] = 0]
  /\ feedOf' = [feedOf EXCEPT ![r] = f]
  /\ UNCHANGED <<tableExists, table>>

\* fetchArticles(keyword, lang): the request goes out, the response comes
\* back after latency ms, and POST pushes the returned articles.
FetchArticles(r, outcome, latency) ==
  /\ pc[r] = "fetch"
  /\ requests' = [requests EXCEPT ![r] = Append(@, SearchRequest(Lang(r), Keyword(r)))]
  /\ raws' = [raws EXCEPT ![r] = IF outcome.kind = "ok" THEN @ \o outcome.body ELSE @]
  /\ allArticles' = [allArticles EXCEPT ![r] = @ \o Contribution(outcome)]
  /\ succSum' = [succSum EXCEPT ![r] =
                   IF outcome.kind = "ok" THEN @ + Len(outcome.body) ELSE @]
  /\ failed' = [failed EXCEPT ![r] = @ \/ outcome.kind # "ok"]
  /\ recovered' = [recovered EXCEPT ![r] =
                     @ \/ (failed[r] /\ outcome.kind = "ok" /\ outcome.body # <<>>)]
  /\ elapsed' = [elapsed EXCEPT ![r] = latency]
  /\ pc' = [pc EXCEPT ![r] = "delay"]
  /\ UNCHANGED <<li, ki, batch, reply, ops, replies, raised, inserted, feedOf,
                 tableExists, table>>

\* POST replies and returns.
SendReply(r, rep) ==
  /\ reply' = [reply EXCEPT ![r] = rep]
  /\ replies' = [replies EXCEPT ![r] = @ + 1]
  /\ pc' = [pc EXCEPT ![r] = "done"]

\* The time since the latest request once await delay(1000) has resolved:
\* the timer fires no earlier than its duration.
PauseNone(e) == e

Pause(e) == e + DelayMs

\* await delay(1000) resolves.  After the last keyword the loops end: POST
\* replies 404 when nothing was found, and calls insertArticles otherwise,
\* which returns at once on an empty list and awaits createArticlesTable
\* (its read of the table) on any other.
Delay(r) ==
  /\ pc[r] = "delay"
  /\ elapsed' = [elapsed EXCEPT ![r] = Pause(@)]
  /\ IF HasNext(li[r], ki[r])
     THEN /\ pc' = [pc EXCEPT ![r] = "fetch"]
          /\ IF ki[r] < Len(keywords[Lang(r)])
             THEN ki' = [ki EXCEPT ![r] = @ + 1] /\ li' = li
             ELSE ki' = [ki EXCEPT ![r] = 1] /\ li' = [li EXCEPT ![r] = @ + 1]
          /\ UNCHANGED <<reply, replies>>
     ELSE /\ UNCHANGED <<li, ki>>
          /\ IF NoArticlesFound(allArticles[r])
             THEN SendReply(r, NotFoundReply)
             ELSE IF Len(allArticles[r]) = 0
             THEN SendReply(r, SuccessReply(allArticles[r]))
             ELSE pc' = [pc EXCEPT ![r] = "probe"] /\ UNCHANGED <<reply, replies>>
  /\ UNCHANGED <<allArticles, raws, batch, requests, ops, raised, succSum, failed,
                 recovered, inserted, feedOf, tableExists, table>>

\* An error propagates out of insertArticles to the catch of POST.
Throw(r, where) ==
  /\ raised' = [raised EXCEPT ![r] = where]
  /\ SendReply(r, ErrorReply)

\* createArticlesTable has returned: insertArticles maps the articles to
\* rows, which may throw, and sends the upsert.
SendUpsert(r) ==
  IF TransformThrows(allArticles[r])
  THEN Throw(r, "transform") /\ batch' = batch
  ELSE /\ batch' = [batch EXCEPT ![r] = Transform(allArticles[r])]
       /\ pc' = [pc EXCEPT ![r] = "upsert"]
       /\ UNCHANGED <<reply, replies, raised>>

\* createArticlesTable, its read of the table: from('articles').select('*')
\* .limit(1) answers without error only if the table exists, answers with
\* an error (the table is created next), or the try block throws (the read
\* is written on the undeclared names response and error).
ProbeTable(r) ==
  /\ pc[r] = "probe"
  /\ ops' = [ops EXCEPT ![r].probe = @ + 1]
  /\ \/ tableExists /\ SendUpsert(r)
     \/ pc' = [pc EXCEPT ![r] = "create"] /\ UNCHANGED <<batch, reply, replies, raised>>
     \/ Throw(r, "ensure") /\ batch' = batch
  /\ UNCHANGED <<li, ki, allArticles, raws, elapsed, requests, succSum, failed,
                 recovered, inserted, feedOf, tableExists, table>>

\* createArticlesTable, rpc('create_articles_table'): CREATE TABLE IF NOT
\* EXISTS succeeds, or createError is thrown.
CreateTableSwallow(r) ==
  /\ pc[r] = "create"
  /\ ops' = [ops EXCEPT ![r].create = @ + 1]
  /\ \/ tableExists' = TRUE /\ SendUpsert(r)
     \/ tableExists' = tableExists /\ SendUpsert(r)
  /\ UNCHANGED <<li, ki, allArticles, raws, elapsed, requests, succSum, failed,
                 recovered, inserted, feedOf, table>>

CreateTable(r) ==
  /\ pc[r] = "create"
  /\ ops' = [ops EXCEPT ![r].create = @ + 1]
  /\ \/ tableExists' = TRUE /\ SendUpsert(r)
     \/ tableExists' = tableExists /\ Throw(r, "ensure") /\ batch' = batch
  /\ UNCHANGED <<li, ki, allArticles, raws, elapsed, requests, succSum, failed,
                 recovered, inserted, feedOf, table>>

\* The store answers the upsert: the batch is applied as one statement, or
\* the statement fails and insertArticles throws the error.
UpsertRetry(r) ==
  /\ pc[r] = "upsert"
  /\ ops' = [ops EXCEPT ![r].upsert = @ + 1]
  /\ \/ /\ tableExists
        /\ table' = UpsertRows(table, batch[r])
        /\ inserted' = [inserted EXCEPT ![r] = Len(table') - Len(table)]
        /\ SendReply(r, SuccessReply(allArticles[r]))
        /\ UNCHANGED raised
     \/ /\ ops[r].upsert = 0
        /\ raised' = [raised EXCEPT ![r] = "upsert"]
        /\ UNCHANGED <<table, inserted, pc, reply, replies>>
     \/ /\ ops[r].upsert > 0
        /\ Throw(r, "upsert")
        /\ UNCHANGED <<table, inserted>>
  /\ UNCHANGED <<li, ki, allArticles, raws, batch, elapsed, requests, succSum,
                 failed, recovered, feedOf, tableExists>>

Upsert(r) ==
  /\ pc[r] = "upsert"
  /\ ops' = [ops EXCEPT ![r].upsert = @ + 1]
  /\ \/ /\ tableExists
        /\ table' = UpsertRows(table, batch[r])
        /\ inserted' = [inserted EXCEPT ![r] = Len(table') - Len(table)]
        /\ SendReply(r, SuccessReply(allArticles[r]))
        /\ UNCHANGED raised
     \/ /\ Throw(r, "upsert")
        /\ UNCHANGED <<table, inserted>>
  /\ UNCHANGED <<li, ki, allArticles, raws, batch, elapsed, requests, succSum,
                 failed, recovered, feedOf, tableExists>>

\* ---------------------------------------------------------- specifications
\* One client calls POST once; each search may come to any outcome that keeps
\* the accumulated articles within MaxArticles.
Next ==
  \/ pc[1] = "idle" /\ Start(1, 0)
  \/ \E o \in Outcomes, lat \in {0, MaxLatency} :
        /\ Len(allArticles[1]) + Len(o.body) <= MaxArticles
        /\ FetchArticles(1, o, lat)
  \/ Delay(1)
  \/ ProbeTable(1)
  \/ CreateTable(1)
  \/ Upsert(1)

Spec == Init /\ [][Next]_vars

\* Two clients call POST concurrently, again and again; during a run the
\* news source answers from one feed.
NextConc ==
  \/ \E r \in Runs, f \in DOMAIN Feeds : Start(r, f)
  \/ \E r \in Runs : FetchArticles(r, FeedOutcome(feedOf[r], Keyword(r)), 0)
  \/ \E r \in Runs : Delay(r)
  \/ \E r \in Runs : ProbeTable(r)
  \/ \E r \in Runs : CreateTable(r)
  \/ \E r \in Runs : Upsert(r)

SpecConc == Init /\ [][NextConc]_vars

\* ------------------------------------------------------------------ claims
\* The requests a run sends when it searches the whole catalog in order.
ExpectedRequests ==
  [i \in 1..Len(keywords.arabic) |-> SearchRequest("arabic", keywords.arabic[i])]
    \o [i \in 1..Len(keywords.french) |-> SearchRequest("french", keywords.french[i])]
    \o [i \in 1..Len(keywords.spanish) |-> SearchRequest("spanish", keywords.spanish[i])]

\* Run r has left the keyword loops.
PastLoop(r) == pc[r] \in {"probe", "create", "upsert", "done"}

\* C1: a failing keyword contributes nothing and the later keywords are still
\* searched: the accumulated count is the sum of the result counts of the
\* successful searches, and a run with a failed search still sends every
\* request of the catalog before it leaves the loops.
C1_FailureIsLocal ==
  \A r \in Runs :
    /\ Len(allArticles[r]) = succSum[r]
    /\ (failed[r] /\ PastLoop(r)) => requests[r] = ExpectedRequests

\* A search returned 2 results after an earlier search had failed, and the
\* run went on to the end of the catalog.
C1_Witness ==
  /\ recovered[1] /\ pc[1] = "done"
  /\ Len(allArticles[1]) = 2 /\ Len(requests[1]) = 20

\* Two rows of the table have the same url.
DuplicateUrl(rows) ==
  \E i, j \in 1..Len(rows) : i # j /\ rows[i].url = rows[j].url

\* C2: whatever runs have happened, one after another or concurrently, the
\* articles table holds at most one row per url.
C2_OneRowPerUrl == ~DuplicateUrl(table)

\* A run whose batch held the same link twice has succeeded, and so has
\* another run all of whose rows were already in the table.
C2_Witness ==
  \E r, q \in Runs :
    /\ r # q
    /\ reply[r].status = 200 /\ DuplicateUrl(batch[r])
    /\ reply[q].status = 200 /\ Len(batch[q]) > 0 /\ inserted[q] = 0

\* An article of run r has a non-empty date that does not parse.
HasMalformedDate(r) ==
  \E i \in 1..Len(allArticles[r]) :
    allArticles[r][i].date # "" /\ ParseDate(allArticles[r][i].date) = "Invalid Date"

\* C3: a malformed date does not fail the batch: unless the store raises an
\* error, a finished run with such an article has sent the upsert, with
\* published_at of that article set to the ingestion time, and replied success.
C3_MalformedDateFallsBack ==
  \A r \in Runs :
    (pc[r] = "done" /\ HasMalformedDate(r) /\ raised[r] \notin {"ensure", "upsert"})
      => /\ ops[r].upsert = 1
         /\ reply[r].status = 200
         /\ Len(batch[r]) = Len(allArticles[r])
         /\ \A i \in 1..Len(batch[r]) :
              (allArticles[r][i].date # ""
                 /\ ParseDate(allArticles[r][i].date) = "Invalid Date")
                => batch[r][i].published_at = "now"

\* C4: a run sends the requests of the catalog in catalog order, all 20 of
\* them before it leaves the loops, and each request but the first at least
\* 1000 ms after the one before.
C4_CatalogOrder ==
  \A r \in Runs :
    /\ Len(requests[r]) <= Len(ExpectedRequests)
    /\ requests[r] = SubSeq(ExpectedRequests, 1, Len(requests[r]))
    /\ PastLoop(r) => Len(requests[r]) = 20

C4_Spacing ==
  \A r \in Runs :
    (Len(requests[r]) >= 1 /\ Len(requests'[r]) = Len(requests[r]) + 1)
      => elapsed[r] >= 1000

C4_PacedCatalogScan == [](C4_CatalogOrder) /\ [][C4_Spacing]_vars

\* A run has sent all 20 requests, some failed and some with results.
C4_Witness ==
  /\ pc[1] = "done" /\ Len(requests[1]) = 20
  /\ failed[1] /\ Len(allArticles[1]) > 0

\* C5: a run in which no search returned an article ends with the 404 reply
\* 'no articles found', without an error and without touching the store.
C5_NothingFoundIs404 ==
  \A r \in Runs :
    (pc[r] = "done" /\ succSum[r] = 0)
      => /\ reply[r] = NotFoundReply
         /\ raised[r] = "none"
         /\ ops[r] = NoOps

\* A run searched the whole catalog, found nothing and replied.
C5_Witness ==
  /\ pc[1] = "done" /\ succSum[1] = 0
  /\ Len(requests[1]) = 20 /\ replies[1] = 1

\* C6: an error of schema-ensure or of the upsert ends the run with the 500
\* reply, sent once; no store operation is attempted twice in a run.
C6_StoreErrorIsFatalOnce ==
  \A r \in Runs :
    /\ ops[r].probe <= 1 /\ ops[r].create <= 1 /\ ops[r].upsert <= 1
    /\ replies[r] <= 1
    /\ raised[r] \in {"ensure", "upsert"}
         => /\ pc[r] = "done"
            /\ reply[r] = ErrorReply
            /\ replies[r] = 1
            /\ Len(allArticles[r]) > 0

\* The upsert of a run failed after schema-ensure had created the table.
C6_Witness ==
  /\ raised[1] = "upsert" /\ pc[1] = "done"
  /\ ops[1] = [probe |-> 1, create |-> 1, upsert |-> 1]

\* C7: the count of a success reply is the number of accumulated articles.
C7_CountIsProcessed ==
  \A r \in Runs :
    reply[r].status = 200
      => /\ reply[r].count = Len(allArticles[r])
         /\ reply[r].count = succSum[r]

\* A success reply counts more articles than the upsert inserted rows.
C7_Witness ==
  /\ reply[1].status = 200
  /\ inserted[1] < reply[1].count
  /\ DuplicateUrl(batch[1])

\* The source of the i-th accumulated article of run r and the raw source it
\* was built from.
SourceOf(r, i) == allArticles[r][i].source
RawSourceOf(r, i) == raws[r][i].source

\* C8 as stated: a string source is kept, an object with a title gives the
\* nested title, an absent source gives "Unknown".
C8_AsStated ==
  \A r \in Runs : \A i \in 1..Len(allArticles[r]) :
    /\ Len(raws[r]) = Len(allArticles[r])
    /\ RawSourceOf(r, i).shape = "string" => SourceOf(r, i) = RawSourceOf(r, i).text
    /\ (RawSourceOf(r, i).shape = "object" /\ RawSourceOf(r, i).hasTitle)
         => SourceOf(r, i) = RawSourceOf(r, i).text
    /\ RawSourceOf(r, i).shape = "absent" => SourceOf(r, i) = "Unknown"

\* C8, amended: a string source is kept, an object with a non-empty title
\* gives the nested title, and an object with an empty title or without one,
\* or an absent source, gives "Unknown".
C8_NormalizedSource ==
  \A r \in Runs : \A i \in 1..Len(allArticles[r]) :
    /\ Len(raws[r]) = Len(allArticles[r])
    /\ RawSourceOf(r, i).shape = "string" => SourceOf(r, i) = RawSourceOf(r, i).text
    /\ (RawSourceOf(r, i).shape = "object" /\ RawSourceOf(r, i).hasTitle
          /\ RawSourceOf(r, i).text # "")
         => SourceOf(r, i) = RawSourceOf(r, i).text
    /\ (RawSourceOf(r, i).shape = "object"
          /\ (~RawSourceOf(r, i).hasTitle \/ RawSourceOf(r, i).text = ""))
         => SourceOf(r, i) = "Unknown"
    /\ RawSourceOf(r, i).shape = "absent" => SourceOf(r, i) = "Unknown"

\* A run has normalized an object with a non-empty title and an object with
\* an empty one.
C8_Witness ==
  \E i, j \in 1..Len(raws[1]) :
    /\ Len(allArticles[1]) = Len(raws[1])
    /\ RawSourceOf(1, i) = SrcObject("AFP") /\ SourceOf(1, i) = "AFP"
    /\ RawSourceOf(1, j) = SrcObject("") /\ SourceOf(1, j) = "Unknown"

\* C9: a row, once in the table, is never changed or removed, and a
\* successful upsert leaves a row for every url of its batch.
C9_RowsKept ==
  /\ Len(table') >= Len(table)
  /\ \A i \in 1..Len(table) : table'[i] = table[i]

C9_Ingested ==
  \A r \in Runs : reply[r].status = 200 => Urls(batch[r]) \subseteq Urls(table)

C9_RowsAreWriteOnce == [](C9_Ingested) /\ [][C9_RowsKept]_vars

\* A run has succeeded whose batch held another title for a url whose row
\* the other run had inserted.
C9_Witness ==
  \E r, q \in Runs :
    /\ r # q
    /\ reply[r].status = 200 /\ reply[q].status = 200 /\ inserted[q] > 0
    /\ \E i \in 1..Len(batch[r]), j \in 1..Len(table) :
         /\ batch[r][i].url = table[j].url
         /\ batch[r][i].title # table[j].title
         /\ \E k \in 1..Len(batch[q]) : batch[q][k] = table[j]

\* C10: a run sends the upsert at most once, after the last search has
\* returned and with the table ensured, and touches the store only after
\* the last search.
C10_UpsertLast ==
  \A r \in Runs :
    /\ ops[r].upsert <= 1
    /\ (pc[r] \in {"probe", "create", "upsert"}
          \/ ops[r].probe + ops[r].create + ops[r].upsert > 0)
         => requests[r] = ExpectedRequests
    /\ (pc[r] = "upsert" \/ ops[r].upsert > 0)
         => /\ ops[r].probe = 1
            /\ raised[r] # "ensure"
            /\ tableExists

\* A run has sent its upsert after schema-ensure created the table.
C10_Witness ==
  /\ ops[1] = [probe |-> 1, create |-> 1, upsert |-> 1]
  /\ reply[1].status = 200 /\ Len(requests[1]) = 20

====
